---- MODULE Spec2Model ----
(***************************************************************************)
(* Model of counts.py (pickleherring/thirst-factor): the canonical         *)
(* relationship tag of a pairing, the count fetcher and the crawl loop     *)
(* that turns a roster of names into ships.csv.                            *)
(*                                                                         *)
(* A Python str is modelled as the sequence of its code points, so that    *)
(* split(), join(), sorting by key and the f-string of the tag are         *)
(* computed as Python computes them.                                       *)
(***************************************************************************)
EXTENDS Integers, Sequences, FiniteSets, TLC

(***************************************************************************)
(* Bounds of the model.                                                    *)
(***************************************************************************)
\* how many names of NamePool the tag wrangler is applied to
NumNames == 8
\* longest roster read from names.txt
MaxRoster == 2
\* how many heading texts of HeadingPool the remote endpoint may answer with
NumHeadings == 3
\* the same, and the longest roster, for the runs that look at the counts
NumCountHeadings == 5
MaxCountRoster == 1
\* longest roster whose pairings are all wrangled and compared
MaxInjRoster == 3

(***************************************************************************)
(* Program constants (counts.py).                                          *)
(***************************************************************************)
sleep_period == 5
explicit_rating_id == 13
\* Retry(status=7, ...): status retries the transport layer allows
retry_status == 7

champions ==
    { <<67, 97, 105, 116, 108, 121, 110>>,                            \* Caitlyn
      <<69, 107, 107, 111>>,                                          \* Ekko
      <<72, 101, 105, 109, 101, 114, 100, 105, 110, 103, 101, 114>>,  \* Heimerdinger
      <<74, 97, 121, 99, 101>>,                                       \* Jayce
      <<74, 105, 110, 120>>,                                          \* Jinx
      <<83, 105, 110, 103, 101, 100>>,                                \* Singed
      <<86, 97, 110, 100, 101, 114>>,                                 \* Vander
      <<86, 105>>,                                                    \* Vi
      <<86, 105, 107, 116, 111, 114>> }                               \* Viktor

special_case_names ==
    { <<66, 114, 111, 116, 104, 101, 108, 32, 71, 105, 114, 108>>,    \* Brothel Girl
      <<76, 111, 99, 97, 108, 32, 67, 117, 105, 115, 105, 110, 101, 32, 71, 117, 121>> }
                                                                      \* Local Cuisine Guy

\* ' (League of Legends)'
LeagueTag ==
    <<32, 40, 76, 101, 97, 103, 117, 101, 32, 111, 102, 32,
      76, 101, 103, 101, 110, 100, 115, 41>>

\* ' (Arcane: League of Legends)'
ArcaneTag ==
    <<32, 40, 65, 114, 99, 97, 110, 101, 58, 32, 76, 101, 97, 103, 117, 101,
      32, 111, 102, 32, 76, 101, 103, 101, 110, 100, 115, 41>>

\* the code points the model's strings use by name
Space == <<32>>
Slash == <<47>>
DQuote == <<34>>
Comma == <<44>>
Digits == 48..57

(***************************************************************************)
(* Names the wrangler is tried on, and the names a roster is drawn from.   *)
(***************************************************************************)
Jinx == <<74, 105, 110, 120>>
Viktor == <<86, 105, 107, 116, 111, 114>>
Silco == <<83, 105, 108, 99, 111>>
MelMedarda == <<77, 101, 108, 32, 77, 101, 100, 97, 114, 100, 97>>
BrothelGirl == <<66, 114, 111, 116, 104, 101, 108, 32, 71, 105, 114, 108>>
GirlBrothel == <<71, 105, 114, 108, 32, 66, 114, 111, 116, 104, 101, 108>>
Vi == <<86, 105>>
CassandraKiramman ==
    <<67, 97, 115, 115, 97, 110, 100, 114, 97, 32, 75, 105, 114, 97, 109, 109, 97, 110>>
\* 'Mel  Medarda', two spaces: split() gives the tokens of 'Mel Medarda'
MelMedarda2 == <<77, 101, 108, 32, 32, 77, 101, 100, 97, 114, 100, 97>>
LocalCuisineGuy ==
    <<76, 111, 99, 97, 108, 32, 67, 117, 105, 115, 105, 110, 101, 32, 71, 117, 121>>

NamePool ==
    << Jinx, Viktor, Silco, MelMedarda, BrothelGirl, GirlBrothel, Vi,
       CassandraKiramman, MelMedarda2, LocalCuisineGuy >>

Min(x, y) == IF x <= y THEN x ELSE y

Names == { NamePool[k] : k \in 1..Min(NumNames, Len(NamePool)) }

RosterNames == { Jinx, Viktor, Silco, MelMedarda }

(***************************************************************************)
(* Python str operations.                                                  *)
(***************************************************************************)
\* s < t for two str: lexicographic by code point, a proper prefix is smaller
RECURSIVE StrLess(_, _)
StrLess(s, t) ==
    IF t = <<>> THEN FALSE
    ELSE IF s = <<>> THEN TRUE
    ELSE IF Head(s) # Head(t) THEN Head(s) < Head(t)
    ELSE StrLess(Tail(s), Tail(t))

\* str.split(): the maximal runs of non-whitespace characters
RECURSIVE SplitFrom(_, _, _)
SplitFrom(s, cur, acc) ==
    IF s = <<>> THEN (IF cur = <<>> THEN acc ELSE Append(acc, cur))
    ELSE IF <<Head(s)>> = Space
         THEN SplitFrom(Tail(s), <<>>, IF cur = <<>> THEN acc ELSE Append(acc, cur))
         ELSE SplitFrom(Tail(s), Append(cur, Head(s)), acc)

Split(s) == SplitFrom(s, <<>>, <<>>)

\* list.reverse()
Reverse(l) == [k \in 1..Len(l) |-> l[Len(l) + 1 - k]]

\* sep.join(l)
RECURSIVE Join(_, _)
Join(l, sep) ==
    IF l = <<>> THEN <<>>
    ELSE IF Len(l) = 1 THEN l[1]
    ELSE l[1] \o sep \o Join(Tail(l), sep)

(***************************************************************************)
(* Tag wrangler.                                                           *)
(***************************************************************************)
wrangle_fandom_tag(name) ==
    IF name \in champions THEN LeagueTag ELSE ArcaneTag

reverse_names(name) ==
    IF name \in special_case_names THEN name
    ELSE Join(Reverse(Split(name)), Space)

is_multiple_name_nospecial(name) == Len(Split(name)) > 1

is_multiple_name(name) ==
    IF name \in special_case_names THEN FALSE
    ELSE Len(Split(name)) > 1

\* sorted((name1, name2), key=reverse_names): a stable sort of two elements
sorted_swapalways(name1, name2) == <<name2, name1>>

sorted_unkeyed(name1, name2) ==
    IF StrLess(name2, name1) THEN <<name2, name1>> ELSE <<name1, name2>>

sorted_by_reverse_names(name1, name2) ==
    IF StrLess(reverse_names(name2), reverse_names(name1))
    THEN <<name2, name1>>
    ELSE <<name1, name2>>

\* the suffixes of the two sorted names, lines 125-136
suffixes_firstdecides(name1, name2) ==
    LET fandom1 == wrangle_fandom_tag(name1)
        fandom2 == wrangle_fandom_tag(name2)
    IN  IF fandom1 = fandom2
        THEN << <<>>,
                IF is_multiple_name(name1) \/ is_multiple_name(name2)
                THEN <<>> ELSE fandom2 >>
        ELSE << IF is_multiple_name(name1) THEN <<>> ELSE fandom1,
                IF is_multiple_name(name1) THEN <<>> ELSE fandom2 >>

suffixes_bothmultiple(name1, name2) ==
    LET fandom1 == wrangle_fandom_tag(name1)
        fandom2 == wrangle_fandom_tag(name2)
    IN  IF fandom1 = fandom2
        THEN << <<>>,
                IF is_multiple_name(name1) /\ is_multiple_name(name2)
                THEN <<>> ELSE fandom2 >>
        ELSE << IF is_multiple_name(name1) THEN <<>> ELSE fandom1,
                IF is_multiple_name(name2) THEN <<>> ELSE fandom2 >>

suffixes(name1, name2) ==
    LET fandom1 == wrangle_fandom_tag(name1)
        fandom2 == wrangle_fandom_tag(name2)
    IN  IF fandom1 = fandom2
        THEN << <<>>,
                IF is_multiple_name(name1) \/ is_multiple_name(name2)
                THEN <<>> ELSE fandom2 >>
        ELSE << IF is_multiple_name(name1) THEN <<>> ELSE fandom1,
                IF is_multiple_name(name2) THEN <<>> ELSE fandom2 >>

\* the locals of wrangle_relationship_tag when it returns
wrangle_locals(n1, n2) ==
    LET s == sorted_by_reverse_names(n1, n2)
        f == suffixes(s[1], s[2])
    IN  [name1 |-> s[1], name2 |-> s[2], fandom1 |-> f[1], fandom2 |-> f[2]]

\* f'{name1}{fandom1}/{name2}{fandom2}'
wrangle_relationship_tag_name1twice(n1, n2) ==
    LET l == wrangle_locals(n1, n2)
    IN  l.name1 \o l.fandom1 \o Slash \o l.name1 \o l.fandom2

wrangle_relationship_tag(n1, n2) ==
    LET l == wrangle_locals(n1, n2)
    IN  l.name1 \o l.fandom1 \o Slash \o l.name2 \o l.fandom2

(***************************************************************************)
(* Count fetcher.                                                          *)
(***************************************************************************)
\* heading texts the endpoint may put in <h3 class="heading">
HeadingPool ==
    << <<49, 44, 50, 51, 52, 32, 87, 111, 114, 107, 115>>,   \* '1,234 Works'
       <<87, 111, 114, 107, 115>>,                           \* 'Works'
       <<44>>,                                               \* ','
       <<48, 32, 87, 111, 114, 107, 115>>,                   \* '0 Works'
       <<55, 32, 87, 111, 114, 107, 115>>,                   \* '7 Works'
       <<48, 48, 55>>,                                       \* '007'
       <<49, 50, 44, 51>>,                                   \* '12,3'
       <<44, 53, 32, 87, 111, 114, 107, 115>>,               \* ',5 Works'
       <<32, 53, 32, 87, 111, 114, 107, 115>>,               \* ' 5 Works'
       <<>> >>                                               \* ''

Headings == { HeadingPool[k] : k \in 1..Min(NumHeadings, Len(HeadingPool)) }

\* a response: its status code, whether the body has <div id="main">, and the
\* text of the h3.heading inside it (has_h3 FALSE: no such heading)
Bodies(H) ==
    { [main |-> FALSE, has_h3 |-> FALSE, text |-> <<>>],
      [main |-> TRUE, has_h3 |-> FALSE, text |-> <<>>] }
    \cup { [main |-> TRUE, has_h3 |-> TRUE, text |-> h] : h \in H }

Responses(H) == { [status |-> st, body |-> b] : st \in {200, 429}, b \in Bodies(H) }

\* the responses session.get can return: a 429 is retried by the adapter
Returned(H) == { r \in Responses(H) : r.status # 429 }

\* how many times in a row the endpoint answers one request with 429
Refusals == { 0, 1, retry_status, retry_status + 1 }

Return(v) == [raised |-> "", value |-> v]
Raise(e) == [raised |-> e, value |-> -1]

\* work_count_pattern.match(text): the longest prefix of digits and commas
RECURSIVE MatchPrefix_digitsonly(_)
MatchPrefix_digitsonly(text) ==
    IF text = <<>> THEN <<>>
    ELSE IF Head(text) \in Digits
         THEN <<Head(text)>> \o MatchPrefix_digitsonly(Tail(text))
         ELSE <<>>

RECURSIVE MatchPrefix(_)
MatchPrefix(text) ==
    IF text = <<>> THEN <<>>
    ELSE IF Head(text) \in Digits \/ <<Head(text)>> = Comma
         THEN <<Head(text)>> \o MatchPrefix(Tail(text))
         ELSE <<>>

\* str.replace(',', '')
RECURSIVE RemoveCommas(_)
RemoveCommas(s) ==
    IF s = <<>> THEN <<>>
    ELSE IF <<Head(s)>> = Comma THEN RemoveCommas(Tail(s))
         ELSE <<Head(s)>> \o RemoveCommas(Tail(s))

\* int(s) of a non-empty str of decimal digits
RECURSIVE IntOfDigits(_)
IntOfDigits(s) ==
    IF s = <<>> THEN 0
    ELSE 10 * IntOfDigits(SubSeq(s, 1, Len(s) - 1)) + (s[Len(s)] - 48)

\* lines 185-189
parse_heading(text) ==
    LET m == MatchPrefix(text)
        d == RemoveCommas(m)
    IN  IF m = <<>> THEN Raise("AttributeError")
        ELSE IF d = <<>> THEN Raise("ValueError")
        ELSE Return(IntOfDigits(d))

\* get_work_count on the response session.get returned, lines 171-191
get_work_count_of_nostatus(response) ==
    IF ~response.body.main THEN Raise("RateLimitedError")
    ELSE IF response.body.has_h3 THEN parse_heading(response.body.text)
    ELSE Return(0)

get_work_count_of(response) ==
    IF response.status = 429 THEN Raise("RateLimitedError")
    ELSE IF ~response.body.main THEN Raise("RateLimitedError")
    ELSE IF response.body.has_h3 THEN parse_heading(response.body.text)
    ELSE Return(0)

\* session.get through the mounted HTTPAdapter: each 429 answer is retried
\* while status retries are left; once they are used up the adapter raises
\* requests.exceptions.RetryError (Retry's raise_on_status default)
session_get(refusals, response) ==
    IF refusals > retry_status THEN Raise("RetryError")
    ELSE [raised |-> "", value |-> response]

\* get_work_count(session, params), lines 169-191
get_work_count(refusals, response) ==
    LET got == session_get(refusals, response)
    IN  IF got.raised # "" THEN [raised |-> got.raised, value |-> -1]
        ELSE get_work_count_of(got.value)

(***************************************************************************)
(* The script: state.                                                      *)
(***************************************************************************)
VARIABLES
    names,            \* the roster read from names.txt
    headings,         \* the heading texts the endpoint answers with in this run
    credentials,      \* username and password are both set
    ships,            \* the DataFrame of pairings: rows [A, B, ship]
    pc,               \* where the script is
    i,                \* number of pairings the for loop has taken
    started,
    totals,
    n_explicit,
    output_filename,
    params,           \* the search parameters of the current pairing
    total,            \* local of get_work_counts_for_ship
    log,              \* the sleeps and search requests made so far, in order
    files,            \* the files written by to_csv
    exc,              \* the exception that ended the script, "" if none
    rate_limited_at,  \* the pairing whose RateLimitedError was caught, 0 if none
    login_posts,      \* the status codes of the login submissions made
    \* application of wrangle_relationship_tag to a pair of names
    argA, argB, tpc, ret, retSwapped,
    \* application of get_work_count to one response
    fresp, fpc, fout,
    \* wrangle_relationship_tag applied to every pairing of a roster
    iroster, ipc, tags

crawl_vars ==
    << names, headings, credentials, ships, pc, i, started, totals, n_explicit,
       output_filename, params, total, log, files, exc, rate_limited_at,
       login_posts >>

tag_vars == << argA, argB, tpc, ret, retSwapped >>

fetch_vars == << fresp, fpc, fout >>

inj_vars == << iroster, ipc, tags >>

vars == << crawl_vars, tag_vars, fetch_vars, inj_vars >>

\* itertools.combinations_with_replacement(names, 2)
RECURSIVE CombosFrom(_, _, _)
CombosFrom(l, a, b) ==
    IF a > Len(l) THEN <<>>
    ELSE IF b > Len(l) THEN CombosFrom(l, a + 1, a + 1)
    ELSE << <<l[a], l[b]>> >> \o CombosFrom(l, a, b + 1)

\* itertools.combinations(names, 2): no name paired with itself
RECURSIVE StrictCombosFrom(_, _, _)
StrictCombosFrom(l, a, b) ==
    IF a > Len(l) THEN <<>>
    ELSE IF b > Len(l) THEN StrictCombosFrom(l, a + 1, a + 2)
    ELSE << <<l[a], l[b]>> >> \o StrictCombosFrom(l, a, b + 1)

combinations_plain(l) == StrictCombosFrom(l, 1, 2)

combinations_with_replacement(l) == CombosFrom(l, 1, 1)

\* ships['A'].str.cat(ships['B'], sep='/'), line 224
ship_name_wrangled(a, b) == wrangle_relationship_tag(a, b)

ship_name(a, b) == a \o Slash \o b

\* lines 219-224
ships_frame(l) ==
    LET c == combinations_with_replacement(l)
    IN  [k \in 1..Len(c) |->
            [A |-> c[k][1], B |-> c[k][2], ship |-> ship_name(c[k][1], c[k][2])]]

\* rosters: sequences of unique names
RECURSIVE SeqsUpTo(_, _)
SeqsUpTo(S, n) ==
    IF n = 0 THEN { <<>> }
    ELSE LET shorter == SeqsUpTo(S, n - 1)
         IN  shorter \cup
             { Append(q, x) : q \in { r \in shorter : Len(r) = n - 1 }, x \in S }

Unique(l) == \A a, b \in 1..Len(l) : l[a] = l[b] => a = b

Rosters == { r \in SeqsUpTo(RosterNames, MaxRoster) : Unique(r) }

n_pairs == Len(ships)

NoParams == [ship |-> <<>>, rating |-> <<>>]

NoRet == [name1 |-> <<>>, name2 |-> <<>>, fandom1 |-> <<>>, fandom2 |-> <<>>,
          tag |-> <<>>]

SleepEvent(pair) ==
    [ev |-> "sleep", secs |-> sleep_period, pair |-> pair,
     query |-> <<>>, rating |-> <<>>, exhausted |-> FALSE, result |-> -1]

\* a search request: its parameters, whether the endpoint answered 429 until
\* the status retries ran out, and the count returned (-1: it raised)
RequestEvent(pair, p, refusals, r) ==
    [ev |-> "request", secs |-> 0, pair |-> pair,
     query |-> p.ship, rating |-> p.rating,
     exhausted |-> (refusals > retry_status), result |-> r.value]

TagIdle ==
    /\ argA = <<>> /\ argB = <<>> /\ tpc = "off"
    /\ ret = NoRet /\ retSwapped = NoRet

NoResponse ==
    [status |-> 0, body |-> [main |-> FALSE, has_h3 |-> FALSE, text |-> <<>>]]

FetchIdle == fresp = NoResponse /\ fpc = "off" /\ fout = Raise("")

InjIdle == iroster = <<>> /\ ipc = "off" /\ tags = <<>>

CrawlIdle ==
    /\ names = <<>> /\ headings = {} /\ login_posts = <<>>
    /\ credentials = FALSE /\ ships = <<>> /\ pc = "off"
    /\ i = 0 /\ started = FALSE /\ totals = <<>> /\ n_explicit = <<>>
    /\ output_filename = "" /\ params = NoParams /\ total = 0
    /\ log = <<>> /\ files = {} /\ exc = "" /\ rate_limited_at = 0

\* the state at line 243: roster read, ships built, session mounted
Start(R, H) ==
    /\ names \in R
    /\ headings = H
    /\ login_posts = <<>>
    /\ credentials \in BOOLEAN
    /\ ships = ships_frame(names)
    /\ pc = "login"
    /\ i = 0
    /\ started = FALSE
    /\ totals = <<>>
    /\ n_explicit = <<>>
    /\ output_filename = ""
    /\ params = NoParams
    /\ total = 0
    /\ log = <<>>
    /\ files = {}
    /\ exc = ""
    /\ rate_limited_at = 0
    /\ TagIdle
    /\ FetchIdle
    /\ InjIdle

Init == Start(Rosters, Headings)

(***************************************************************************)
(* The script: steps.                                                      *)
(***************************************************************************)
LoginStatuses == {302, 200}

\* line 157: if response.status_code != 302
login_fails_never(status) == FALSE

login_fails(status) == status # 302

\* lines 243-249 with login(), lines 145-160: without credentials no login is
\* made; with them the login page is fetched (no authenticity_token input
\* in it: TypeError at line 147) and the form posted once
Login ==
    /\ pc = "login"
    /\ \E token_found \in BOOLEAN, status \in LoginStatuses :
          IF credentials /\ ~token_found
          THEN /\ exc' = "TypeError"
               /\ pc' = "crashed"
               /\ UNCHANGED << output_filename, login_posts >>
          ELSE IF credentials /\ login_fails(status)
          THEN /\ login_posts' = Append(login_posts, status)
               /\ exc' = "LoginError"
               /\ pc' = "crashed"
               /\ UNCHANGED output_filename
          ELSE /\ login_posts' =
                     IF credentials THEN Append(login_posts, status) ELSE login_posts
               /\ output_filename' = "ships.csv"
               /\ pc' = "loop"
               /\ UNCHANGED exc
    /\ UNCHANGED << names, headings, credentials, ships, i, started, totals,
                    n_explicit, params, total, log, files, rate_limited_at >>
    /\ UNCHANGED << tag_vars, fetch_vars, inj_vars >>

\* lines 253-256: the pause before every pairing but the first
loop_pacing_always(was_started, pair) == << SleepEvent(pair) >>

loop_pacing(was_started, pair) ==
    IF was_started THEN << SleepEvent(pair) >> ELSE <<>>

\* line 201: params = {search_field_ship: f'"{relationship_tag}"'}
ship_params(name1, name2) ==
    [ship |-> DQuote \o wrangle_relationship_tag(name1, name2) \o DQuote,
     rating |-> <<>>]

\* line 251: itertuples has another row for the cursor
pairs_remain_butlast(k) == k + 1 < n_pairs

pairs_remain(k) == k < n_pairs

\* lines 251-256 and 200-201: take the next pairing, or leave the loop
LoopNext ==
    /\ pc = "loop"
    /\ IF pairs_remain(i)
       THEN /\ i' = i + 1
            /\ log' = log \o loop_pacing(started, i + 1)
            /\ started' = TRUE
            /\ params' = ship_params(ships[i + 1].A, ships[i + 1].B)
            /\ pc' = "get_total"
       ELSE /\ pc' = "assemble"
            /\ UNCHANGED << i, log, started, params >>
    /\ UNCHANGED << names, headings, login_posts, credentials, ships, totals, n_explicit,
                    output_filename, total, files, exc, rate_limited_at >>
    /\ UNCHANGED << tag_vars, fetch_vars, inj_vars >>

\* line 204: if total
needs_explicit_always(t) == TRUE

needs_explicit(t) == t # 0

\* line 205: time.sleep(sleep_period) before the explicit query
explicit_pacing_none(pair) == <<>>

explicit_pacing(pair) == << SleepEvent(pair) >>

\* line 266: break leaves the loop
after_rate_limited_continue == "loop"

after_rate_limited == "assemble"

\* lines 263-266
CatchRateLimited ==
    /\ output_filename' = "temp.csv"
    /\ rate_limited_at' = i
    /\ pc' = after_rate_limited
    /\ UNCHANGED << totals, n_explicit, exc >>

\* an exception no handler catches ends the script
Uncaught(e) ==
    /\ exc' = e
    /\ pc' = "crashed"
    /\ UNCHANGED << totals, n_explicit, output_filename, rate_limited_at >>

\* lines 260-261
Record_totalsonly(t, e) ==
    /\ totals' = Append(totals, t)
    /\ n_explicit' = n_explicit
    /\ pc' = "loop"
    /\ UNCHANGED << output_filename, exc, rate_limited_at >>

Record(t, e) ==
    /\ totals' = Append(totals, t)
    /\ n_explicit' = Append(n_explicit, e)
    /\ pc' = "loop"
    /\ UNCHANGED << output_filename, exc, rate_limited_at >>

\* line 202 with lines 204-211: the total query of the current pairing
GetTotal ==
    /\ pc = "get_total"
    /\ \E refusals \in Refusals, response \in Returned(headings) :
          LET r == get_work_count(refusals, response)
              req == RequestEvent(i, params, refusals, r)
          IN  IF r.raised = "RateLimitedError"
              THEN /\ CatchRateLimited
                   /\ log' = Append(log, req)
                   /\ UNCHANGED << total, params >>
              ELSE IF r.raised # ""
              THEN /\ Uncaught(r.raised)
                   /\ log' = Append(log, req)
                   /\ UNCHANGED << total, params >>
              ELSE IF needs_explicit(r.value)
              THEN /\ total' = r.value
                   /\ log' = Append(log, req) \o explicit_pacing(i)
                   /\ params' = [params EXCEPT !.rating = <<explicit_rating_id>>]
                   /\ pc' = "get_explicit"
                   /\ UNCHANGED << totals, n_explicit, output_filename, exc,
                                   rate_limited_at >>
              ELSE /\ total' = r.value
                   /\ log' = Append(log, req)
                   /\ Record(r.value, 0)
                   /\ UNCHANGED params
    /\ UNCHANGED << names, headings, login_posts, credentials, ships, i, started, files >>
    /\ UNCHANGED << tag_vars, fetch_vars, inj_vars >>

\* line 207: the explicit query of the current pairing
GetExplicit ==
    /\ pc = "get_explicit"
    /\ \E refusals \in Refusals, response \in Returned(headings) :
          LET r == get_work_count(refusals, response)
              req == RequestEvent(i, params, refusals, r)
          IN  /\ log' = Append(log, req)
              /\ IF r.raised = "RateLimitedError" THEN CatchRateLimited
                 ELSE IF r.raised # "" THEN Uncaught(r.raised)
                 ELSE Record(total, r.value)
    /\ UNCHANGED << names, headings, login_posts, credentials, ships, i, started, params, total, files >>
    /\ UNCHANGED << tag_vars, fetch_vars, inj_vars >>

\* the rows to_csv writes: ships with the columns fics, explicit and p
csv_rows ==
    [k \in 1..Len(ships) |->
        [A |-> ships[k].A, B |-> ships[k].B, ship |-> ships[k].ship,
         fics |-> totals[k], explicit |-> n_explicit[k],
         p |-> IF totals[k] = 0 THEN <<>> ELSE <<n_explicit[k], totals[k]>>]]

\* lines 268-272: a column of another length than the frame is a ValueError
WriteOutput ==
    /\ pc = "assemble"
    /\ IF Len(totals) # Len(ships) \/ Len(n_explicit) # Len(ships)
       THEN /\ exc' = "ValueError"
            /\ pc' = "crashed"
            /\ UNCHANGED files
       ELSE /\ files' = files \cup { [name |-> output_filename, rows |-> csv_rows] }
            /\ pc' = "done"
            /\ UNCHANGED exc
    /\ UNCHANGED << names, headings, login_posts, credentials, ships, i, started, totals, n_explicit,
                    output_filename, params, total, log, rate_limited_at >>
    /\ UNCHANGED << tag_vars, fetch_vars, inj_vars >>

Next == Login \/ LoopNext \/ GetTotal \/ GetExplicit \/ WriteOutput

Spec == Init /\ [][Next]_vars

\* the script on short rosters with an endpoint that answers with more counts
CountHeadings == { HeadingPool[k] : k \in 1..Min(NumCountHeadings, Len(HeadingPool)) }

CountRosters == { r \in SeqsUpTo(RosterNames, MaxCountRoster) : Unique(r) }

CountInit == Start(CountRosters, CountHeadings)

CountSpec == CountInit /\ [][Next]_vars

\* the statements the script can be at
Positions == {"off", "login", "loop", "get_total", "get_explicit", "assemble", "done", "crashed"}

\* the script leaves the statement it is at; every step of Next does, and
\* one is possible until the script has ended
Proceed == pc \notin {"off", "done", "crashed"} /\ pc' \in Positions \ {pc}

\* the script runs its statements one after another, and every request
\* returns or raises: the script does not stay at a statement for ever
LiveSpec == Init /\ [][Next]_vars /\ WF_pc(Proceed)

(***************************************************************************)
(* wrangle_relationship_tag applied to a pair of names, in both orders.    *)
(***************************************************************************)
Call(n1, n2) ==
    LET l == wrangle_locals(n1, n2)
    IN  [name1 |-> l.name1, name2 |-> l.name2, fandom1 |-> l.fandom1,
         fandom2 |-> l.fandom2, tag |-> wrangle_relationship_tag(n1, n2)]

TagInit ==
    /\ CrawlIdle
    /\ FetchIdle
    /\ InjIdle
    /\ argA \in Names
    /\ argB \in Names
    /\ tpc = "ready"
    /\ ret = NoRet
    /\ retSwapped = NoRet

Wrangle ==
    /\ tpc = "ready"
    /\ ret' = Call(argA, argB)
    /\ tpc' = "called"
    /\ UNCHANGED << argA, argB, retSwapped >>
    /\ UNCHANGED << crawl_vars, fetch_vars, inj_vars >>

WrangleSwapped ==
    /\ tpc = "called"
    /\ retSwapped' = Call(argB, argA)
    /\ tpc' = "swapped"
    /\ UNCHANGED << argA, argB, ret >>
    /\ UNCHANGED << crawl_vars, fetch_vars, inj_vars >>

TagNext == Wrangle \/ WrangleSwapped

TagSpec == TagInit /\ [][TagNext]_vars

(***************************************************************************)
(* get_work_count applied to one response of a session that hands every    *)
(* response on as it is.                                                   *)
(***************************************************************************)
FetchStatuses == {200, 429, 404, 500, 503}

FetchHeadings == { HeadingPool[k] : k \in 1..Len(HeadingPool) }

FetchResponses ==
    { [status |-> st, body |-> b] : st \in FetchStatuses, b \in Bodies(FetchHeadings) }

FetchInit ==
    /\ CrawlIdle
    /\ TagIdle
    /\ InjIdle
    /\ fresp \in FetchResponses
    /\ fpc = "ready"
    /\ fout = Raise("")

Fetch ==
    /\ fpc = "ready"
    /\ fout' = get_work_count_of(fresp)
    /\ fpc' = "done"
    /\ UNCHANGED fresp
    /\ UNCHANGED << crawl_vars, tag_vars, inj_vars >>

FetchNext == Fetch

FetchSpec == FetchInit /\ [][FetchNext]_vars

(***************************************************************************)
(* wrangle_relationship_tag applied to every pairing of a roster, as the   *)
(* crawl loop applies it at line 200.                                      *)
(***************************************************************************)
\* 'Silco (Arcane: League of Legends)'
SilcoArcane == Silco \o ArcaneTag
Sky == <<83, 107, 121>>
\* 'Sky/Sky'
SkySky == <<83, 107, 121, 47, 83, 107, 121>>
\* 'Sky/Sky/Sky'
SkySkySky == <<83, 107, 121, 47, 83, 107, 121, 47, 83, 107, 121>>

InjNames ==
    { Jinx, Silco, SilcoArcane, MelMedarda, CassandraKiramman, Sky, SkySky,
      SkySkySky }

InjRosters == { r \in SeqsUpTo(InjNames, MaxInjRoster) : Unique(r) }

InjInit ==
    /\ CrawlIdle
    /\ TagIdle
    /\ FetchIdle
    /\ iroster \in InjRosters
    /\ ipc = "ready"
    /\ tags = <<>>

WrangleAll ==
    /\ ipc = "ready"
    /\ tags' = LET c == combinations_with_replacement(iroster)
               IN  [k \in 1..Len(c) |-> wrangle_relationship_tag(c[k][1], c[k][2])]
    /\ ipc' = "done"
    /\ UNCHANGED iroster
    /\ UNCHANGED << crawl_vars, tag_vars, fetch_vars >>

InjNext == WrangleAll

InjSpec == InjInit /\ [][InjNext]_vars

(***************************************************************************)
(* Properties.                                                             *)
(***************************************************************************)
Terminated == pc \in {"done", "crashed"}

Requests == { j \in DOMAIN log : log[j].ev = "request" }

RequestsOf(k) == { j \in Requests : log[j].pair = k }

\* C1: if RateLimitedError is raised while pairing k (0-indexed) is processed,
\* the run ends by writing an output named as partial (temp.csv) holding
\* exactly the k rows of pairings 0..k-1 with the counts obtained for them.
C1_PartialOutputOnRateLimit ==
    (Terminated /\ rate_limited_at # 0) =>
        \E f \in files :
            /\ f.name = "temp.csv"
            /\ Len(f.rows) = rate_limited_at - 1
            /\ \A k \in 1..Len(f.rows) :
                  /\ f.rows[k].A = ships[k].A
                  /\ f.rows[k].B = ships[k].B
                  /\ f.rows[k].fics = totals[k]
                  /\ f.rows[k].explicit = n_explicit[k]

\* C2: wrangle_relationship_tag(a, b) = wrangle_relationship_tag(b, a) for
\* all names a and b, names with equal sort keys included.
C2_Symmetric ==
    tpc = "swapped" => ret.tag = retSwapped.tag

\* C3 as claimed: in every output row of a pairing (A, B) the ship column is
\* the canonical tag of (A, B), the string searched for.
C3_ShipColumnIsCanonicalTag ==
    \A f \in files : \A k \in 1..Len(f.rows) :
        /\ f.rows[k].ship = wrangle_relationship_tag(f.rows[k].A, f.rows[k].B)
        /\ \A j \in RequestsOf(k) : log[j].query = DQuote \o f.rows[k].ship \o DQuote

\* C3 as amended: in every output row of a pairing (A, B) the ship column is
\* A, a slash, B, in roster order with no fandom suffix; the canonical tag
\* of (A, B) is the search key of every request made for that pairing.
C3_ShipColumnIsSlashName ==
    /\ \A f \in files : \A k \in 1..Len(f.rows) :
          /\ f.rows[k].A = combinations_with_replacement(names)[k][1]
          /\ f.rows[k].B = combinations_with_replacement(names)[k][2]
          /\ f.rows[k].ship = f.rows[k].A \o <<47>> \o f.rows[k].B
    /\ \A j \in Requests :
          log[j].query =
              <<34>> \o wrangle_relationship_tag(ships[log[j].pair].A,
                                                 ships[log[j].pair].B) \o <<34>>

C3_Witness ==
    \E f \in files : \E k \in 1..Len(f.rows) :
        /\ f.rows[k].A = Viktor
        /\ f.rows[k].B = Jinx
        /\ f.rows[k].ship # wrangle_relationship_tag(Viktor, Jinx)
        /\ RequestsOf(k) # {}

\* C4: a pairing whose total query returns 0 records explicit 0 and has had
\* exactly one request; an explicit-filtered request is only made after a
\* total request for the same tag returned a count greater than 0.
C4_ZeroTotalSkipsExplicit ==
    /\ \A k \in 1..Len(totals) :
          totals[k] = 0 =>
              /\ n_explicit[k] = 0
              /\ Cardinality(RequestsOf(k)) = 1
              /\ \A j \in RequestsOf(k) : log[j].rating = <<>>
    /\ \A j \in Requests :
          log[j].rating # <<>> =>
              \E h \in Requests :
                  /\ h < j
                  /\ log[h].pair = log[j].pair
                  /\ log[h].rating = <<>>
                  /\ log[h].query = log[j].query
                  /\ log[h].result > 0

C4_Witness ==
    /\ pc = "done"
    /\ \E k \in 1..Len(totals) : totals[k] = 0
    /\ \E j \in Requests : log[j].rating # <<>>

\* C5: between any two consecutive search requests of a run there is a sleep
\* of the full sleep period, and no sleep precedes the first request.
C5_PacedRequests ==
    /\ \A j1, j2 \in Requests :
          (j1 < j2 /\ \A m \in Requests : ~(j1 < m /\ m < j2)) =>
              \E h \in DOMAIN log :
                  /\ j1 < h /\ h < j2
                  /\ log[h].ev = "sleep"
                  /\ log[h].secs = 5
    /\ \A j \in Requests :
          (\A m \in Requests : m >= j) =>
              \A h \in 1..(j - 1) : log[h].ev # "sleep"

C5_Witness ==
    /\ pc = "done"
    /\ \E j1, j2, j3 \in Requests :
          /\ j1 < j2 /\ j2 < j3
          /\ log[j1].pair = log[j2].pair
          /\ log[j2].pair # log[j3].pair

\* C6: when the endpoint answers a search request with 429 until the status
\* retries are used up, the crawl loop sees RateLimitedError and takes the
\* abort path; the run does not end through another exception.
C6_ExhaustedRetriesAreRateLimited ==
    \A j \in Requests :
        log[j].exhausted => (rate_limited_at = log[j].pair /\ exc # "RetryError")

\* C7: once RateLimitedError has been raised, no further search request is
\* made and no further pairing is taken.
C7_RateLimitedIsTerminal ==
    [][rate_limited_at # 0 =>
          /\ i' = i
          /\ log' = log
          /\ totals' = totals
          /\ pc' \notin {"loop", "get_total", "get_explicit"}]_vars

C7_Witness ==
    /\ rate_limited_at # 0
    /\ rate_limited_at < n_pairs
    /\ Terminated

\* C8: the output is written as ships.csv exactly when every pairing was
\* processed without RateLimitedError, and as temp.csv exactly when the run
\* was aborted by RateLimitedError; partial results are never in ships.csv.
C8_FilenameTellsOutcome ==
    /\ \A f \in files :
          f.name = "ships.csv" =>
              (rate_limited_at = 0 /\ Len(f.rows) = Len(combinations_with_replacement(names)))
    /\ Terminated =>
          /\ (\E f \in files : f.name = "ships.csv") <=>
                (rate_limited_at = 0 /\ exc = "" /\ Len(totals) = n_pairs)
          /\ (\E f \in files : f.name = "temp.csv") <=> (rate_limited_at # 0)

\* C9: for two names of one fandom label that are both single-token (the
\* special-case names count as single-token), self-pairings included, the
\* tag has no suffix on the first sorted name and the fandom suffix on the
\* second: 'Jinx/Viktor (League of Legends)', 'Jinx/Jinx (League of Legends)'.
C9_SingleTokensSuffixOnSecond ==
    LET Single(n) == n \in special_case_names \/ Len(Split(n)) <= 1
        Label(n) == IF n \in champions THEN LeagueTag ELSE ArcaneTag
        Holds(r) ==
            /\ r.fandom1 = <<>>
            /\ r.fandom2 = Label(r.name2)
            /\ r.tag = r.name1 \o <<47>> \o r.name2 \o Label(r.name2)
    IN  /\ (tpc \in {"called", "swapped"} /\ Single(argA) /\ Single(argB)
               /\ Label(argA) = Label(argB)) =>
              /\ Holds(ret)
              /\ {ret.name1, ret.name2} = {argA, argB}
        /\ (tpc = "swapped" /\ Single(argA) /\ Single(argB)
               /\ Label(argA) = Label(argB)) => Holds(retSwapped)
        /\ (tpc = "called" /\ {argA, argB} = {Jinx, Viktor}) =>
              ret.tag = <<74, 105, 110, 120, 47, 86, 105, 107, 116, 111, 114>>
                            \o LeagueTag
        /\ (tpc = "called" /\ argA = Jinx /\ argB = Jinx) =>
              ret.tag = <<74, 105, 110, 120, 47, 74, 105, 110, 120>> \o LeagueTag

C9_Witness ==
    /\ tpc = "swapped"
    /\ argA = Silco
    /\ argB = BrothelGirl
    /\ ret.name1 = BrothelGirl
    /\ ret.fandom2 = ArcaneTag

\* C10: for two names of different fandom labels each name's suffix depends
\* on that name alone: a single-token name has its own fandom suffix, a
\* multi-token name has none, in either position.
C10_DifferentFandomsIndependent ==
    LET Multi(n) == n \notin special_case_names /\ Len(Split(n)) > 1
        Label(n) == IF n \in champions THEN LeagueTag ELSE ArcaneTag
        Own(n) == IF Multi(n) THEN <<>> ELSE Label(n)
        Holds(r) ==
            /\ {r.name1, r.name2} = {argA, argB}
            /\ r.fandom1 = Own(r.name1)
            /\ r.fandom2 = Own(r.name2)
            /\ r.tag = r.name1 \o Own(r.name1) \o <<47>> \o r.name2 \o Own(r.name2)
    IN  Label(argA) # Label(argB) =>
            /\ tpc \in {"called", "swapped"} => Holds(ret)
            /\ tpc = "swapped" => Holds(retSwapped)

C10_Witness ==
    /\ tpc = "swapped"
    /\ argA = Jinx
    /\ argB = MelMedarda
    /\ ret.fandom1 = LeagueTag
    /\ ret.fandom2 = <<>>
    /\ retSwapped = ret

\* C11: for two names of one fandom label of which at least one is
\* multi-token (and not a special-case name) the tag has no suffix on either
\* name: it is name1, a slash, name2.
C11_SameFandomMultiTokenNoSuffix ==
    LET Multi(n) == n \notin special_case_names /\ Len(Split(n)) > 1
        Label(n) == IF n \in champions THEN LeagueTag ELSE ArcaneTag
        Holds(r) ==
            /\ {r.name1, r.name2} = {argA, argB}
            /\ r.fandom1 = <<>>
            /\ r.fandom2 = <<>>
            /\ r.tag = r.name1 \o <<47>> \o r.name2
    IN  (Label(argA) = Label(argB) /\ (Multi(argA) \/ Multi(argB))) =>
            /\ tpc \in {"called", "swapped"} => Holds(ret)
            /\ tpc = "swapped" => Holds(retSwapped)

C11_Witness ==
    /\ tpc = "swapped"
    /\ argA = Silco
    /\ argB = MelMedarda
    /\ ret.tag = MelMedarda \o <<47>> \o Silco
    /\ retSwapped.tag = ret.tag

\* C17: the two names are in the tag in ascending order of their sort keys
\* (a special-case name is its own key, any other name's key is its tokens
\* in reverse order joined by single spaces); with equal keys the names keep
\* the order in which they were passed.
C17_SortedByReversedTokens ==
    LET Key(n) == IF n \in special_case_names THEN n
                  ELSE Join(Reverse(Split(n)), <<32>>)
        Ordered(r, first, second) ==
            /\ ~StrLess(Key(r.name2), Key(r.name1))
            /\ {r.name1, r.name2} = {first, second}
            /\ Key(first) = Key(second) => (r.name1 = first /\ r.name2 = second)
            /\ \E f1, f2 \in {<<>>, LeagueTag, ArcaneTag} :
                  r.tag = r.name1 \o f1 \o <<47>> \o r.name2 \o f2
    IN  /\ tpc \in {"called", "swapped"} => Ordered(ret, argA, argB)
        /\ tpc = "swapped" => Ordered(retSwapped, argB, argA)
        /\ (tpc = "called" /\ argA = MelMedarda /\ argB = CassandraKiramman) =>
              (ret.name1 = CassandraKiramman /\ ret.name2 = MelMedarda)

C17_Witness ==
    /\ tpc = "swapped"
    /\ argA = CassandraKiramman
    /\ argB = Jinx
    /\ ret.name1 = Jinx
    /\ retSwapped.name1 = Jinx

C17_TieWitness ==
    /\ tpc = "swapped"
    /\ argA = GirlBrothel
    /\ argB = BrothelGirl
    /\ ret.name1 = GirlBrothel
    /\ retSwapped.name1 = BrothelGirl

\* C12: get_work_count sorts every response into one outcome: status 429
\* raises RateLimitedError whatever the body is; otherwise a body without
\* the main container raises RateLimitedError; otherwise a body with the
\* main container and no count heading returns 0; no count is ever returned
\* for a 429 response or for a response without the main container.
C12_ResponseClassification ==
    fpc = "done" =>
        /\ fresp.status = 429 => fout = [raised |-> "RateLimitedError", value |-> -1]
        /\ (fresp.status # 429 /\ ~fresp.body.main) =>
              fout = [raised |-> "RateLimitedError", value |-> -1]
        /\ (fresp.status # 429 /\ fresp.body.main /\ ~fresp.body.has_h3) =>
              fout = [raised |-> "", value |-> 0]
        /\ fout.raised = "" => (fresp.status # 429 /\ fresp.body.main)

C12_Witness ==
    /\ fpc = "done"
    /\ fresp.status = 429
    /\ fresp.body.main
    /\ fresp.body.has_h3
    /\ fresp.body.text = HeadingPool[1]
    /\ fout.raised = "RateLimitedError"

\* C18 as claimed: for every non-429 response with the main container and a
\* count heading, whatever the heading text, get_work_count returns a
\* non-negative integer (the leading run of digits and commas, commas
\* removed) or raises RateLimitedError, and ends in no other way.
C18_AnyHeadingGivesCount ==
    (fpc = "done" /\ fresp.status # 429 /\ fresp.body.main /\ fresp.body.has_h3) =>
        /\ fout.raised \in {"", "RateLimitedError"}
        /\ fout.raised = "" => fout.value >= 0

\* C18 as amended: for such a response whose heading starts with a run of
\* digits and commas holding at least one digit, get_work_count returns the
\* integer that run spells with the commas removed ('1,234 Works': 1234); a
\* heading that starts with neither ends in AttributeError, a heading
\* whose leading run is commas only ends in ValueError.
C18_LeadingRunGivesCount ==
    LET text == fresp.body.text
        InRun(c) == c \in 48..57 \/ c = 44
        \* the length of the leading run of digits and commas
        n == CHOOSE m \in 0..Len(text) :
                /\ \A j \in 1..m : InRun(text[j])
                /\ m < Len(text) => ~InRun(text[m + 1])
        digits == SelectSeq(SubSeq(text, 1, n), LAMBDA c : c \in 48..57)
        val[m \in 0..Len(digits)] ==
            IF m = 0 THEN 0 ELSE 10 * val[m - 1] + (digits[m] - 48)
    IN  (fpc = "done" /\ fresp.status # 429 /\ fresp.body.main /\ fresp.body.has_h3) =>
            /\ n = 0 => fout = [raised |-> "AttributeError", value |-> -1]
            /\ (n > 0 /\ digits = <<>>) => fout = [raised |-> "ValueError", value |-> -1]
            /\ digits # <<>> =>
                  /\ fout.raised = ""
                  /\ fout.value = val[Len(digits)]
                  /\ fout.value >= 0
            /\ text = <<49, 44, 50, 51, 52, 32, 87, 111, 114, 107, 115>> =>
                  fout.value = 1234

C18_Witness ==
    /\ fpc = "done"
    /\ fresp.status = 200
    /\ fresp.body.text = <<49, 44, 50, 51, 52, 32, 87, 111, 114, 107, 115>>
    /\ fout = [raised |-> "", value |-> 1234]

\* C13: every count result recorded, whatever the endpoint answers, has a
\* non-negative total and a non-negative explicit count with
\* explicit <= total.
C13_ExplicitAtMostTotal ==
    /\ Len(totals) = Len(n_explicit)
    /\ \A k \in 1..Len(totals) :
          /\ totals[k] >= 0
          /\ n_explicit[k] >= 0
          /\ n_explicit[k] <= totals[k]

\* C14: for a roster of n unique names the enumeration has n(n+1)/2
\* pairings, holds every self-pairing and every unordered pair of distinct
\* names exactly once, in combinations-with-replacement order (for each A in
\* roster order, B from A's position to the end); a completed run writes
\* one row per pairing in that order.
C14_PairingEnumeration ==
    LET n == Len(names)
        Pos(a, b) == (a - 1) * n - ((a - 1) * (a - 2)) \div 2 + (b - a + 1)
    IN  /\ 2 * Len(ships) = n * (n + 1)
        /\ \A a, b \in 1..n :
              a <= b =>
                  /\ ships[Pos(a, b)].A = names[a]
                  /\ ships[Pos(a, b)].B = names[b]
                  /\ \A k \in 1..Len(ships) :
                        {ships[k].A, ships[k].B} = {names[a], names[b]} => k = Pos(a, b)
        /\ \A f \in files :
              /\ Len(f.rows) = Len(ships)
              /\ \A k \in 1..Len(ships) :
                    f.rows[k].A = ships[k].A /\ f.rows[k].B = ships[k].B
        /\ pc = "done" => Cardinality(files) = 1

C14_Witness ==
    /\ pc = "done"
    /\ names = <<Viktor, Jinx>>
    /\ \E f \in files :
          /\ Len(f.rows) = 3
          /\ f.rows[1].A = Viktor /\ f.rows[1].B = Viktor
          /\ f.rows[2].A = Viktor /\ f.rows[2].B = Jinx
          /\ f.rows[3].A = Jinx /\ f.rows[3].B = Jinx

\* C15 as claimed: two different unordered pairings of a roster of distinct
\* names never have the same tag.
C15_TagsInjective ==
    ipc = "done" =>
        \A j, k \in 1..Len(tags) : tags[j] = tags[k] => j = k

\* C15 as amended: the same, for a roster of distinct names none of which
\* contains a slash or ends with one of the two fandom suffixes.
C15_TagsInjectiveOnPlainNames ==
    LET EndsWith(x, t) ==
            Len(x) >= Len(t) /\ SubSeq(x, Len(x) - Len(t) + 1, Len(x)) = t
        Plain(x) ==
            /\ \A c \in 1..Len(x) : x[c] # 47
            /\ ~EndsWith(x, LeagueTag)
            /\ ~EndsWith(x, ArcaneTag)
    IN  (ipc = "done" /\ \A m \in 1..Len(iroster) : Plain(iroster[m])) =>
            /\ 2 * Len(tags) = Len(iroster) * (Len(iroster) + 1)
            /\ \A j, k \in 1..Len(tags) : tags[j] = tags[k] => j = k

C15_Witness ==
    /\ ipc = "done"
    /\ iroster = <<Jinx, MelMedarda, CassandraKiramman>>
    /\ Len(tags) = 6
    /\ tags[2] = Jinx \o LeagueTag \o <<47>> \o MelMedarda
    /\ tags[3] = Jinx \o LeagueTag \o <<47>> \o CassandraKiramman

\* C16: with credentials configured, a login submission that is not
\* answered with 302 raises LoginError before any search request: the run
\* ends with no request made, no result recorded and no file written, and
\* the login is submitted once only.
C16_LoginFailureIsFatal ==
    /\ (credentials /\ login_posts # <<>> /\ login_posts[1] # 302) =>
          /\ exc = "LoginError"
          /\ pc = "crashed"
          /\ Len(login_posts) = 1
          /\ i = 0
          /\ log = <<>>
          /\ totals = <<>>
          /\ n_explicit = <<>>
          /\ files = {}
    /\ exc = "LoginError" => (credentials /\ login_posts # <<>>)
    /\ ~credentials => login_posts = <<>>

C16_Witness ==
    /\ credentials
    /\ login_posts = <<200>>
    /\ exc = "LoginError"
    /\ Len(ships) = 3

\* a pairing is fully processed once its total query was answered and, for
\* a positive total, its explicit query was answered too (lines 202-209)
Answered(k, filtered) ==
    \E j \in RequestsOf(k) :
        (log[j].rating # <<>>) = filtered /\ log[j].result >= 0

Completed(k) ==
    /\ Answered(k, FALSE)
    /\ (\E j \in RequestsOf(k) : log[j].rating = <<>> /\ log[j].result = 0)
          \/ Answered(k, TRUE)

IsPrefix(x, y) == Len(x) <= Len(y) /\ SubSeq(y, 1, Len(x)) = x

\* C19: between pairings totals and n_explicit have the same length, the
\* number of pairings fully processed; both only grow, by one entry per
\* completed pairing, entries are never changed or removed, and a pairing
\* whose total or explicit query raised RateLimitedError adds to neither.
C19_AppendOnlyResults ==
    /\ [](/\ Len(totals) = Len(n_explicit)
          /\ Len(totals) = Cardinality({ k \in 1..Len(ships) : Completed(k) })
          /\ pc = "loop" => Len(totals) = i
          /\ rate_limited_at # 0 =>
                (Len(totals) = rate_limited_at - 1 /\ ~Completed(rate_limited_at)))
    /\ [][/\ IsPrefix(totals, totals')
          /\ IsPrefix(n_explicit, n_explicit')
          /\ Len(totals') <= Len(totals) + 1
          /\ Len(totals') = Len(n_explicit')
          /\ Len(totals') = Len(totals) + 1 =>
                (pc \in {"get_total", "get_explicit"} /\ pc' = "loop")]_vars

C19_Witness ==
    /\ rate_limited_at = 2
    /\ Len(totals) = 1
    /\ Len(n_explicit) = 1
    /\ totals[1] > 0
    /\ \E j \in RequestsOf(2) : log[j].rating # <<>>

\* the run left the loop normally and wrote its output
RunCompleted == pc = "done" /\ rate_limited_at = 0

\* the run caught RateLimitedError and left the loop
RunAborted == rate_limited_at # 0

\* the exceptions nothing in the script catches
UncaughtErrors == {"TypeError", "LoginError", "RetryError", "AttributeError", "ValueError"}

\* C20 (as stated): every run eventually reaches Completed or Aborted; in
\* particular a run that has ended has reached one of the two.
C20_EndsCompletedOrAborted ==
    Terminated => (RunCompleted \/ RunAborted)

\* the cursor and the requests of the crawl loop
C20_CursorSafety ==
    /\ i \in 0..Len(ships)
    /\ \A j \in Requests : log[j].pair \in 1..i
    /\ \A j, k \in Requests : j < k => log[j].pair <= log[k].pair
    /\ \A k \in 1..Len(ships) :
          /\ Cardinality(RequestsOf(k)) <= 2
          /\ Cardinality({ j \in RequestsOf(k) : log[j].rating = <<>> }) <= 1
          /\ Cardinality({ j \in RequestsOf(k) : log[j].rating # <<>> }) <= 1
    /\ (pc = "assemble" /\ rate_limited_at = 0) => i = Len(ships)
    /\ RunCompleted =>
          /\ i = Len(ships)
          /\ \A k \in 1..Len(ships) : Completed(k)
          /\ Len(totals) = Len(ships)
    /\ pc = "crashed" => exc \in UncaughtErrors
    /\ pc = "done" => exc = ""

\* C20: every run eventually ends, Completed or by an exception nothing
\* catches (LoginError or TypeError at login, RetryError, AttributeError or
\* ValueError from a query, ValueError at the output of an Aborted run); the
\* cursor advances by exactly one pairing per loop iteration, no pairing is
\* processed twice, at most 2 search requests are issued per pairing, and
\* the run reaches Completed only when no pairings remain.
C20_EveryRunEnds ==
    /\ <>Terminated
    /\ []C20_CursorSafety
    /\ [][/\ i' \in {i, i + 1}
          /\ (pc = "loop" /\ pc' = "get_total") <=> i' = i + 1]_vars

C20_Witness ==
    /\ pc = "crashed"
    /\ rate_limited_at = 0
    /\ exc = "AttributeError"
    /\ i = 2
    /\ Len(totals) = 1
    /\ Cardinality(RequestsOf(1)) = 2
    /\ Cardinality(RequestsOf(2)) = 1

====
